---- MODULE Spec2Model ----
(***************************************************************************)
(* A model of apt/package.py: Package.get_changelog (the changelog fetch   *)
(* state machine), the Package.mark_* / commit protocol over the depcache  *)
(* and the problem resolver, Version.description (the long-description     *)
(* formatter), the Version comparisons, Version.fetch_binary /             *)
(* fetch_source and Version.dependencies.                                  *)
(*                                                                         *)
(* Strings are sequences of one-character strings.  A changelog text is a  *)
(* sequence of lines; a line is a record.                                  *)
(***************************************************************************)
EXTENDS Integers, Sequences, FiniteSets, TLC

VARIABLES
    \* ---- Package.get_changelog ----
    pc,             \* position of the get_changelog call
    _changelog,     \* Package._changelog, the per-handle cache ("" is <<>>)
    defaulttimeout, \* socket.getdefaulttimeout(), process-global
    cancelSet,      \* cancel_lock.isSet()
    installedVer,   \* Package.installed.version, or NoVersion
    candidate,      \* Package.candidate: NoCandidate or [origin, version]
    uriArg,         \* the uri argument of the running call
    lockArg,        \* whether the running call was given a cancel_lock
    timeout,        \* the local "timeout" saved at line 918
    src_ver,        \* the local src_ver after epoch stripping
    stream,         \* the lines the opened connection will deliver
    pos,            \* number of lines already read from the stream
    changelog,      \* the local accumulator "changelog"
    result,         \* value returned by the last finished call
    exitKind,       \* how the last finished call ended
    lastExc,        \* exception the environment raised in the running call
    urlopens,       \* urllib2.urlopen calls made by the running call
    readsAfterSet,  \* readline calls made since the flag was set in the loop
    callerTimeout,  \* default timeout at the moment the call was made
    prevExit,       \* class of exit of the call before the running one
    fetchedOnce,    \* whether some call has completed a fetch
    fetched,        \* the text the first completed fetch returned
    \* ---- depcache / resolver ----
    CurrentVer,     \* pkg -> whether an installed version exists
    upgradable,     \* pkg -> depcache.IsUpgradable(pkg)
    mode,           \* pkg -> pending depcache mode
    oplog,          \* operations issued by the last mark_* / commit call
    lastCall,       \* name, package and arguments of the last call
    before,         \* [mode, broken] snapshot taken when the last call began
    raised,         \* whether the last mark_* / commit call raised
    stderrLines,    \* diagnostics written to sys.stderr by the last call
    resolveFailed,  \* whether the resolver of the last call failed
    pair,           \* record of a mark_delete immediately followed by mark_keep
    \* ---- Version.description ----
    dsc,            \* the raw long description
    desc,           \* the formatted description, once computed
    redesc,         \* the description of a long description equal to desc
    dpc,            \* "raw" before formatting, "done" after, "again" after
                    \* the formatted text was formatted once more
    \* ---- Version comparison ----
    versions,       \* token ID -> version string, the versions of one package
    compared,       \* the comparisons made so far, with their answers
    \* ---- Version.fetch_binary / fetch_source ----
    files,          \* path -> what the filesystem holds there
    filesBefore,    \* the filesystem when the last fetch call began
    fcall,          \* name and arguments of the last fetch call
    acqRan,         \* whether the last fetch call ran its acquisition
    acqItems,       \* acq.Items of the last fetch call, with their status
    fresult,        \* what the last fetch call returned or raised
    \* ---- Version.dependencies ----
    DependsList,    \* self._cand.DependsList: kind -> list of or-groups
    depends_list,   \* the list the property returned
    dlpc            \* "unread" before the property is read, "read" after

chvars == <<pc, _changelog, defaulttimeout, cancelSet, installedVer, candidate,
            uriArg, lockArg, timeout, src_ver, stream, pos, changelog, result,
            exitKind, lastExc, urlopens, readsAfterSet, callerTimeout, prevExit,
            fetchedOnce, fetched>>
depvars == <<CurrentVer, upgradable, mode, oplog, lastCall, before, raised,
             stderrLines, resolveFailed, pair>>
dscvars == <<dsc, desc, redesc, dpc>>
cmpvars == <<versions, compared>>
fetvars == <<files, filesBefore, fcall, acqRan, acqItems, fresult>>
dlvars == <<DependsList, depends_list, dlpc>>
libvars == <<cmpvars, fetvars, dlvars>>
vars == <<chvars, depvars, dscvars, libvars>>

(***************************************************************************)
(* Bounds                                                                  *)
(***************************************************************************)
MaxLines == 2       \* longest changelog stream a connection delivers
MaxDescLen == 7     \* longest raw description, in characters
MaxGroups == 2      \* most or-groups one kind of dependency has

(***************************************************************************)
(* Version strings and apt_pkg.VersionCompare                              *)
(***************************************************************************)
NoVersion == <<"-">>
VersionStrings == { <<"1">>, <<"2">>, <<"2", ":", "1">> }

RECURSIVE IndexOf(_, _, _)
\* index of the first c in s at or after i, 0 when there is none (str.find)
IndexOf(s, c, i) ==
    IF i > Len(s) THEN 0
    ELSE IF s[i] = c THEN i
    ELSE IndexOf(s, c, i + 1)

Contains(s, c) == IndexOf(s, c, 1) # 0

\* s.split(":", 1)[1] guarded by ":" in s
SplitOnce1(s) ==
    IF Contains(s, ":")
    THEN SubSeq(s, IndexOf(s, ":", 1) + 1, Len(s))
    ELSE s

RECURSIVE DropColons(_)
DropColons(s) ==
    IF s = <<>> THEN <<>>
    ELSE IF Head(s) = ":" THEN DropColons(Tail(s))
    ELSE <<Head(s)>> \o DropColons(Tail(s))

\* l = s.split(":"); "".join(l[1:]) guarded by len(l) > 1
StripEpochJoin(s) ==
    IF Contains(s, ":")
    THEN DropColons(SubSeq(s, IndexOf(s, ":", 1) + 1, Len(s)))
    ELSE s

DigitVal(c) == IF c = "0" THEN 0 ELSE IF c = "1" THEN 1 ELSE IF c = "2" THEN 2 ELSE 3

RECURSIVE NumVal(_)
NumVal(s) == IF s = <<>> THEN 0 ELSE 10 * NumVal(SubSeq(s, 1, Len(s) - 1)) + DigitVal(s[Len(s)])

RECURSIVE Segments(_)
\* the numbers of a version string, cut at its colons
Segments(s) ==
    IF ~Contains(s, ":") THEN <<NumVal(s)>>
    ELSE <<NumVal(SubSeq(s, 1, IndexOf(s, ":", 1) - 1))>>
         \o Segments(SubSeq(s, IndexOf(s, ":", 1) + 1, Len(s)))

RECURSIVE CmpList(_, _)
CmpList(a, b) ==
    IF a = <<>> /\ b = <<>> THEN 0
    ELSE IF a = <<>> THEN -1
    ELSE IF b = <<>> THEN 1
    ELSE IF Head(a) < Head(b) THEN -1
    ELSE IF Head(a) > Head(b) THEN 1
    ELSE CmpList(Tail(a), Tail(b))

\* epoch first (0 when absent), then the rest
VersionCompare(a, b) ==
    LET ea == IF Contains(a, ":") THEN Head(Segments(a)) ELSE 0
        eb == IF Contains(b, ":") THEN Head(Segments(b)) ELSE 0
        ra == IF a = <<>> THEN <<>> ELSE IF Contains(a, ":") THEN Tail(Segments(a)) ELSE Segments(a)
        rb == IF b = <<>> THEN <<>> ELSE IF Contains(b, ":") THEN Tail(Segments(b)) ELSE Segments(b)
    IN  IF ea < eb THEN -1 ELSE IF ea > eb THEN 1 ELSE CmpList(ra, rb)

(***************************************************************************)
(* Changelog lines and the fixed messages                                  *)
(***************************************************************************)
TextLine(n) == [kind |-> "text", pkg |-> "", ver |-> <<>>, n |-> n]
\* a line "<pkg> (<ver>) ..."
HdrLine(p, v) == [kind |-> "hdr", pkg |-> p, ver |-> v, n |-> 0]
Msg(id, v) == <<[kind |-> "msg", pkg |-> id, ver |-> v, n |-> 0]>>

Empty == <<>>
NotAvailableMsg == Msg("The list of changes is not available", <<>>)
NotYetAvailableMsg(v) == Msg("The list of changes is not available yet", v)
FailedDownloadMsg == Msg("Failed to download the list of changes", <<>>)

Lines == {TextLine(1)} \cup {HdrLine("src", v) : v \in VersionStrings}
         \cup {HdrLine("other", <<"1">>)}

RECURSIVE SeqsUpTo(_, _)
SeqsUpTo(S, n) ==
    IF n = 0 THEN {<<>>}
    ELSE LET shorter == SeqsUpTo(S, n - 1)
         IN  shorter \cup {Append(s, x) : s \in {t \in shorter : Len(t) = n - 1}, x \in S}

Streams == SeqsUpTo(Lines, MaxLines)

NoRecord == [found |-> FALSE, Version |-> <<>>]
NoCandidate == [origin |-> "none", version |-> NoVersion, srcrec |-> NoRecord]
\* candidate versions: origin, binary version, and what
\* apt_pkg.SourceRecords().Lookup(src_pkg) finds for them
Candidates == { NoCandidate,
                [origin |-> "Debian", version |-> <<"2">>, srcrec |-> NoRecord],
                [origin |-> "Ubuntu", version |-> <<"2", ":", "1">>,
                 srcrec |-> [found |-> TRUE, Version |-> <<"1", ":", "2">>]],
                [origin |-> "Other", version |-> <<"1">>,
                 srcrec |-> [found |-> TRUE, Version |-> <<>>]],
                \* an upstream version that holds a colon itself
                [origin |-> "Debian", version |-> <<"1", ":", "2", ":", "1">>,
                 srcrec |-> NoRecord] }

ChangelogTimeout == 2
TimeoutValues == {30, 60}

UriArgs == {"None", "custom"}

\* exceptions the network layer raises
UrlopenExceptions == {"HTTPError", "URLError", "BadStatusLine", "ValueError"}
ReadExceptions == {"IOError", "UnicodeDecodeError"}
\* classes that are IOError or a subclass of it
IOErrorClasses == {"IOError", "URLError", "HTTPError"}

(***************************************************************************)
(* Package.get_changelog                                                   *)
(***************************************************************************)

\* lines 871-897: the source version, falling back to the binary version
SourceVersion(cand) ==
    IF cand.srcrec.found
    THEN IF cand.srcrec.Version = <<>> THEN cand.version ELSE cand.srcrec.Version
    ELSE cand.version

\* lines 849-861: the uri template, "" when the origin has none
UriTemplate(uri, cand) ==
    IF uri # "None" THEN uri
    ELSE IF cand.origin = "Debian" THEN "packages.debian.org"
    ELSE IF cand.origin = "Ubuntu" THEN "changelogs.ubuntu.com"
    ELSE ""

\* line 846: self._changelog != ""
NeverCached(cache) == FALSE
Cached(cache) == cache # Empty

\* the finally clause, line 978: what the default timeout becomes on exit
FinallyNoRestore(saved, current) == current
Finally(saved, current) == saved

\* line 928 / 936 with the test left out
NeverCanceled(lock, flag) == FALSE
\* line 928 / 936: cancel_lock and cancel_lock.isSet()
Canceled(lock, flag) == lock /\ flag

\* lines 929 / 937: return "" leaves self._changelog alone
CancelKeepsPartial(cache, acc) == acc
CacheAfterCancel(cache, acc) == cache

\* line 966: self._changelog = changelog
StoreNothing(cache, text) == cache
CacheAfterFetch(cache, text) == text

\* lines 968-976: which except clause takes the exception
HandlerIOFirst(exc) ==
    IF exc \in IOErrorClasses \cup {"BadStatusLine"} THEN "io"
    ELSE IF exc = "HTTPError" THEN "http"
    ELSE "raised"
Handler(exc) ==
    IF exc = "HTTPError" THEN "http"
    ELSE IF exc \in IOErrorClasses \cup {"BadStatusLine"} THEN "io"
    ELSE "raised"

\* line 947: re.match("^<src_pkg> \((.*)\)(.*)$", line)
Match(line) == line.kind = "hdr" /\ line.pkg = "src"

\* lines 951-958: the break condition for a matching line
StopsStrictly(line, inst) ==
    /\ inst # NoVersion
    /\ VersionCompare(SplitOnce1(line.ver), SplitOnce1(inst)) < 0
Stops(line, inst) ==
    /\ inst # NoVersion
    /\ VersionCompare(SplitOnce1(line.ver), SplitOnce1(inst)) <= 0

\* lines 964-965 left out
ExtractedAsIs(acc) == acc
\* lines 964-965
Extracted(acc) == IF Len(acc) = 0 THEN NotAvailableMsg ELSE acc

\* lines 968-976: the handlers return a message and assign nothing
ErrorCachesMessage(cache, msg) == msg
CacheAfterError(cache, msg) == cache

\* leave the call: nothing of the running call is left to do
Leave(kind, value, cache, tmo) ==
    /\ pc' = "returned"
    /\ exitKind' = kind
    /\ result' = value
    /\ _changelog' = cache
    /\ defaulttimeout' = tmo

\* an exception raised inside the try block (lines 922-978)
Raise(exc) ==
    LET msg == CASE Handler(exc) = "http" -> NotYetAvailableMsg(src_ver)
                 [] Handler(exc) = "io" -> FailedDownloadMsg
                 [] OTHER -> Empty
    IN  /\ lastExc' = exc
        /\ Leave(Handler(exc), msg, CacheAfterError(_changelog, msg),
                 Finally(timeout, defaulttimeout))

\* lines 845-925
get_changelog(uri, lock) ==
    /\ UNCHANGED <<depvars, dscvars, libvars, fetchedOnce, fetched>>
    /\ pc = "idle"
    /\ uriArg' = uri
    /\ lockArg' = lock
    /\ callerTimeout' = defaulttimeout
    /\ urlopens' = 0
    /\ readsAfterSet' = 0
    /\ lastExc' = "none"
    /\ stream' = <<>>
    /\ pos' = 0
    /\ changelog' = <<>>
    /\ UNCHANGED <<cancelSet, installedVer, candidate, prevExit>>
    /\ IF Cached(_changelog)
       THEN /\ Leave("cached", _changelog, _changelog, defaulttimeout)
            /\ UNCHANGED <<timeout, src_ver>>
       ELSE IF candidate = NoCandidate
       THEN \* self.candidate is None: AttributeError at line 852 or 864
            /\ Leave("raised", Empty, _changelog, defaulttimeout)
            /\ lastExc' = "AttributeError"
            /\ UNCHANGED <<timeout, src_ver>>
       ELSE IF UriTemplate(uri, candidate) = ""
       THEN /\ Leave("noorigin", NotAvailableMsg, _changelog, defaulttimeout)
            /\ UNCHANGED <<timeout, src_ver>>
       ELSE /\ src_ver' = StripEpochJoin(SourceVersion(candidate))
            /\ timeout' = defaulttimeout
            /\ defaulttimeout' = ChangelogTimeout
            /\ pc' = "check1"
            /\ UNCHANGED <<_changelog, result, exitKind>>

\* lines 927-929
CheckCancel1 ==
    /\ UNCHANGED <<depvars, dscvars, libvars, fetchedOnce, fetched>>
    /\ pc = "check1"
    /\ IF Canceled(lockArg, cancelSet)
       THEN Leave("cancel1", Empty, CacheAfterCancel(_changelog, changelog),
                  Finally(timeout, defaulttimeout))
       ELSE /\ pc' = "urlopen"
            /\ UNCHANGED <<_changelog, defaulttimeout, result, exitKind>>
    /\ UNCHANGED <<cancelSet, installedVer, candidate, uriArg, lockArg, timeout,
                   src_ver, stream, pos, changelog, lastExc, urlopens,
                   readsAfterSet, callerTimeout, prevExit>>

\* lines 930-933
UrlOpen ==
    /\ UNCHANGED <<depvars, dscvars, libvars, fetchedOnce, fetched>>
    /\ pc = "urlopen"
    /\ urlopens' = urlopens + 1
    /\ \/ \E s \in Streams :
            /\ stream' = s
            /\ pos' = 0
            /\ changelog' = <<>>
            /\ pc' = "check2"
            /\ UNCHANGED <<_changelog, defaulttimeout, result, exitKind, lastExc>>
       \/ \E exc \in UrlopenExceptions :
            /\ Raise(exc)
            /\ UNCHANGED <<stream, pos, changelog>>
    /\ UNCHANGED <<cancelSet, installedVer, candidate, uriArg, lockArg, timeout,
                   src_ver, readsAfterSet, callerTimeout, prevExit>>

\* lines 935-937
CheckCancel2 ==
    /\ UNCHANGED <<depvars, dscvars, libvars, fetchedOnce, fetched>>
    /\ pc = "check2"
    /\ IF Canceled(lockArg, cancelSet)
       THEN Leave("cancel2", Empty, CacheAfterCancel(_changelog, changelog),
                  Finally(timeout, defaulttimeout))
       ELSE /\ pc' = "readline"
            /\ UNCHANGED <<_changelog, defaulttimeout, result, exitKind>>
    /\ UNCHANGED <<cancelSet, installedVer, candidate, uriArg, lockArg, timeout,
                   src_ver, stream, pos, changelog, lastExc, urlopens,
                   readsAfterSet, callerTimeout, prevExit>>

\* lines 963-966 and 977-979, after the loop is left by break
Finish(acc) ==
    /\ Leave("ok",
             CacheAfterFetch(_changelog, Extracted(acc)),
             CacheAfterFetch(_changelog, Extracted(acc)),
             Finally(timeout, defaulttimeout))
    /\ fetchedOnce' = TRUE
    /\ fetched' = IF fetchedOnce THEN fetched ELSE result'

\* lines 938-961, and the code after the loop when it breaks
ReadLine ==
    /\ UNCHANGED <<depvars, dscvars, libvars>>
    /\ pc = "readline"
    /\ readsAfterSet' = IF lockArg /\ cancelSet THEN readsAfterSet + 1 ELSE readsAfterSet
    /\ \/ /\ pos = Len(stream)          \* line_raw == ""
          /\ Finish(changelog)
          /\ UNCHANGED <<pos, changelog, lastExc>>
       \/ /\ pos < Len(stream)
          /\ pos' = pos + 1
          /\ LET line == stream[pos + 1]
             IN  IF Match(line) /\ Stops(line, installedVer)
                 THEN /\ Finish(changelog)
                      /\ UNCHANGED <<changelog, lastExc>>
                 ELSE /\ changelog' = Append(changelog, line)
                      /\ pc' = "check2"
                      /\ UNCHANGED <<_changelog, defaulttimeout, result, exitKind,
                                     lastExc, fetchedOnce, fetched>>
       \/ \E exc \in ReadExceptions :
            /\ Raise(exc)
            /\ UNCHANGED <<pos, changelog, fetchedOnce, fetched>>
    /\ UNCHANGED <<cancelSet, installedVer, candidate, uriArg, lockArg, timeout,
                   src_ver, stream, urlopens, callerTimeout, prevExit>>

ExitClass(kind) ==
    IF kind \in {"cancel1", "cancel2"} THEN "cancel"
    ELSE IF kind \in {"http", "io"} THEN "neterr"
    ELSE "other"

\* the caller takes the returned value (or the exception) and goes on
Returned ==
    /\ UNCHANGED <<depvars, dscvars, libvars, fetchedOnce, fetched>>
    /\ pc = "returned"
    /\ pc' = "idle"
    /\ prevExit' = ExitClass(exitKind)
    /\ UNCHANGED <<_changelog, defaulttimeout, cancelSet, installedVer, candidate,
                   uriArg, lockArg, timeout, src_ver, stream, pos, changelog,
                   result, exitKind, lastExc, urlopens, readsAfterSet, callerTimeout>>

\* another thread sets the cancellation flag
SetCancel ==
    /\ UNCHANGED <<depvars, dscvars, libvars, fetchedOnce, fetched>>
    /\ ~cancelSet
    /\ cancelSet' = TRUE
    /\ UNCHANGED <<pc, _changelog, defaulttimeout, installedVer, candidate,
                   uriArg, lockArg, timeout, src_ver, stream, pos, changelog,
                   result, exitKind, lastExc, urlopens, readsAfterSet,
                   callerTimeout, prevExit>>

\* the caller clears the flag between two calls
ClearCancel ==
    /\ UNCHANGED <<depvars, dscvars, libvars, fetchedOnce, fetched>>
    /\ cancelSet
    /\ pc = "idle"
    /\ cancelSet' = FALSE
    /\ UNCHANGED <<pc, _changelog, defaulttimeout, installedVer, candidate,
                   uriArg, lockArg, timeout, src_ver, stream, pos, changelog,
                   result, exitKind, lastExc, urlopens, readsAfterSet,
                   callerTimeout, prevExit>>

InitChangelog ==
    /\ pc = "idle"
    /\ _changelog = Empty
    /\ defaulttimeout \in TimeoutValues
    /\ cancelSet = FALSE
    /\ installedVer \in VersionStrings \cup {NoVersion}
    /\ candidate \in Candidates
    /\ uriArg = "None"
    /\ lockArg = FALSE
    /\ timeout = defaulttimeout
    /\ src_ver = <<>>
    /\ stream = <<>>
    /\ pos = 0
    /\ changelog = <<>>
    /\ result = Empty
    /\ exitKind = "none"
    /\ lastExc = "none"
    /\ urlopens = 0
    /\ readsAfterSet = 0
    /\ callerTimeout = defaulttimeout
    /\ prevExit = "other"
    /\ fetchedOnce = FALSE
    /\ fetched = Empty

NextChangelog ==
    \/ \E uri \in UriArgs, lock \in BOOLEAN : get_changelog(uri, lock)
    \/ CheckCancel1
    \/ UrlOpen
    \/ CheckCancel2
    \/ ReadLine
    \/ Returned
    \/ SetCancel
    \/ ClearCancel

(***************************************************************************)
(* The depcache and the problem resolver                                   *)
(***************************************************************************)
Pkgs == {"a", "b", "c"}
\* "b" depends on "a"; nothing depends on "b" or on "c"
Depends == [p \in Pkgs |-> IF p = "b" THEN {"a"} ELSE {}]
Dependents(p) == {q \in Pkgs : p \in Depends[q]}
Modes == {"keep", "install", "delete"}

\* whether p is on the system once the pending modes m are carried out
Present(m, p) == (CurrentVer[p] /\ m[p] # "delete") \/ m[p] = "install"
Broken(m, p) == Present(m, p) /\ \E d \in Depends[p] : ~Present(m, d)
\* depcache.BrokenCount
BrokenCount(m) == Cardinality({p \in Pkgs : Broken(m, p)})

\* depcache.MarkKeep
MarkKeep(m, p) == [m EXCEPT ![p] = "keep"]
\* depcache.MarkDelete
MarkDelete(m, p) == [m EXCEPT ![p] = IF CurrentVer[p] THEN "delete" ELSE "keep"]
\* the packages an install request with auto_inst pulls in
InstallSet(m, p, auto_inst) ==
    IF auto_inst THEN {p} \cup {d \in Depends[p] : ~Present(m, d)} ELSE {p}
\* depcache.MarkInstall
MarkInstall(m, p, auto_inst) ==
    [q \in Pkgs |->
        IF q \in InstallSet(m, p, auto_inst)
        THEN IF ~CurrentVer[q] \/ upgradable[q] THEN "install" ELSE "keep"
        ELSE m[q]]

\* one operation issued on the cache, the depcache or the resolver
Op(name, p, x, y) == [name |-> name, pkg |-> p, x |-> x, y |-> y]
Plain(name) == Op(name, "", FALSE, FALSE)
OnPkg(name, p) == Op(name, p, FALSE, FALSE)

\* the effect of one depcache operation on the pending modes
Exec(m, op) ==
    CASE op.name = "MarkKeep" -> MarkKeep(m, op.pkg)
      [] op.name = "MarkDelete" -> MarkDelete(m, op.pkg)
      [] op.name = "MarkInstall" -> MarkInstall(m, op.pkg, op.x)
      [] OTHER -> m

RECURSIVE Run(_, _)
Run(m, ops) == IF ops = <<>> THEN m ELSE Run(Exec(m, Head(ops)), Tail(ops))

Names(ops) == {ops[i].name : i \in 1..Len(ops)}

\* packages the resolver may not touch, given the directives issued to it
Protected(m, ops) ==
    {ops[i].pkg : i \in {j \in 1..Len(ops) : ops[j].name = "Protect"}}
    \cup (IF "InstallProtect" \in Names(ops) THEN {q \in Pkgs : m[q] = "install"} ELSE {})
\* packages the resolver was told to remove
Removed(ops) == {ops[i].pkg : i \in {j \in 1..Len(ops) : ops[j].name = "Remove"}}

\* the states a best-effort resolver run may leave behind
ResolveOutcomes(m, ops) ==
    IF "Resolve" \notin Names(ops) THEN {m}
    ELSE {n \in [Pkgs -> Modes] :
            /\ \A q \in Pkgs : n[q] = "delete" => CurrentVer[q]
            /\ \A q \in Removed(ops) : n[q] = MarkDelete(m, q)[q]
            /\ \A q \in Protected(m, ops) \ Removed(ops) : n[q] = m[q]}

(***************************************************************************)
(* Package.mark_keep / mark_delete / mark_install / mark_upgrade / commit  *)
(***************************************************************************)

\* lines 1001+1003, 1015+1025, 1042+1050: cache_pre_change ... cache_post_change
BracketNoPost(ops) == <<Plain("pre")>> \o ops
Bracket(ops) == <<Plain("pre")>> \o ops \o <<Plain("post")>>

\* line 1002
KeepNothing(p) == <<>>
KeepOps(p) == <<OnPkg("MarkKeep", p)>>

\* lines 1018 and 1045 without the auto_fix test
ResolverAlways(auto_fix, broken) == broken > 0
\* lines 1018 and 1045: auto_fix and BrokenCount > 0
ResolverWanted(auto_fix, broken) == auto_fix /\ broken > 0

\* lines 1018 and 1045: BrokenCount is read only when auto_fix is set
BrokenQuery(auto_fix) == IF auto_fix THEN <<Plain("BrokenCount")>> ELSE <<>>

\* lines 1019-1024 with Remove issued ahead of Protect
DeleteFixOpsRemoveFirst(p) ==
    <<OnPkg("Clear", p), OnPkg("Remove", p), OnPkg("Protect", p),
      Plain("InstallProtect"), Op("Resolve", "", FALSE, FALSE)>>
\* lines 1019-1024
DeleteFixOps(p) ==
    <<OnPkg("Clear", p), OnPkg("Protect", p), OnPkg("Remove", p),
      Plain("InstallProtect"), Op("Resolve", "", FALSE, FALSE)>>

\* lines 1046-1049
InstallFixOps(p) ==
    <<OnPkg("Clear", p), OnPkg("Protect", p), Op("Resolve", "", TRUE, FALSE)>>

\* lines 1024 and 1049: the value of Resolve() is dropped
ResolveChecked(ok) == IF ok THEN "continue" ELSE "raise"
AfterResolve(ok) == "continue"

\* lines 759-763
is_upgradable_unchecked(p) == upgradable[p]
is_upgradable(p) == CurrentVer[p] /\ upgradable[p]

\* line 762: IsUpgradable is asked only of an installed package
UpgradableQuery(p) == IF CurrentVer[p] THEN <<OnPkg("IsUpgradable", p)>> ELSE <<>>

\* line 1028: the defaults of mark_install
DefaultArgs == [auto_fix |-> TRUE, auto_inst |-> TRUE, from_user |-> TRUE]

NoCall == [name |-> "none", pkg |-> "", auto_fix |-> FALSE, auto_inst |-> FALSE,
           from_user |-> FALSE, purge |-> FALSE]
NoPair == [valid |-> FALSE, broken |-> 0, wasKeep |-> FALSE, fixRan |-> FALSE]

Snapshot == [mode |-> mode, broken |-> BrokenCount(mode)]

\* a request followed by the optional resolver run (lines 1016-1024, 1043-1049)
RequestAndFix(first, fixops, auto_fix, prefix) ==
    LET m1 == Run(mode, first)
        fix == ResolverWanted(auto_fix, BrokenCount(m1))
        issued == first \o BrokenQuery(auto_fix) \o (IF fix THEN fixops ELSE <<>>)
    IN  \E n \in ResolveOutcomes(m1, IF fix THEN fixops ELSE <<>>) :
            LET ok == BrokenCount(n) = 0
                go == IF fix THEN AfterResolve(ok) ELSE "continue"
            IN  /\ mode' = n
                /\ resolveFailed' = (fix /\ ~ok)
                /\ raised' = (go = "raise")
                /\ oplog' = prefix \o (IF go = "raise" THEN BracketNoPost(issued)
                                                       ELSE Bracket(issued))

\* lines 999-1003
mark_keep(p) ==
    /\ UNCHANGED <<chvars, dscvars, libvars, CurrentVer, upgradable>>
    /\ lastCall' = [NoCall EXCEPT !.name = "mark_keep", !.pkg = p]
    /\ before' = Snapshot
    /\ mode' = Run(mode, KeepOps(p))
    /\ oplog' = Bracket(KeepOps(p))
    /\ raised' = FALSE
    /\ resolveFailed' = FALSE
    /\ stderrLines' = 0
    /\ pair' = IF lastCall.name = "mark_delete" /\ lastCall.pkg = p /\ ~raised
                  /\ Dependents(p) = {}
               THEN [valid |-> TRUE, broken |-> before.broken,
                     wasKeep |-> before.mode[p] = "keep",
                     fixRan |-> "Resolve" \in Names(oplog)]
               ELSE NoPair

\* lines 1005-1025
mark_delete(p, auto_fix, purge) ==
    /\ UNCHANGED <<chvars, dscvars, libvars, CurrentVer, upgradable>>
    /\ lastCall' = [NoCall EXCEPT !.name = "mark_delete", !.pkg = p,
                                  !.auto_fix = auto_fix, !.purge = purge]
    /\ before' = Snapshot
    /\ RequestAndFix(<<Op("MarkDelete", p, purge, FALSE)>>, DeleteFixOps(p), auto_fix, <<>>)
    /\ stderrLines' = 0
    /\ pair' = NoPair

\* lines 1027-1050
mark_install(p, auto_fix, auto_inst, from_user) ==
    /\ UNCHANGED <<chvars, dscvars, libvars, CurrentVer, upgradable>>
    /\ lastCall' = [NoCall EXCEPT !.name = "mark_install", !.pkg = p,
                                  !.auto_fix = auto_fix, !.auto_inst = auto_inst,
                                  !.from_user = from_user]
    /\ before' = Snapshot
    /\ RequestAndFix(<<Op("MarkInstall", p, auto_inst, from_user)>>, InstallFixOps(p), auto_fix, <<>>)
    /\ stderrLines' = 0
    /\ pair' = NoPair

\* lines 1052-1059
mark_upgrade(p) ==
    /\ UNCHANGED <<chvars, dscvars, libvars, CurrentVer, upgradable>>
    /\ lastCall' = [NoCall EXCEPT !.name = "mark_upgrade", !.pkg = p]
    /\ before' = Snapshot
    /\ pair' = NoPair
    /\ IF is_upgradable(p)
       THEN /\ RequestAndFix(<<Op("MarkInstall", p, DefaultArgs.auto_inst, DefaultArgs.from_user)>>,
                             InstallFixOps(p), DefaultArgs.auto_fix, UpgradableQuery(p))
            /\ stderrLines' = 0
       ELSE /\ stderrLines' = 1
            /\ oplog' = UpgradableQuery(p)
            /\ raised' = FALSE
            /\ resolveFailed' = FALSE
            /\ UNCHANGED mode

\* lines 1061-1070; the engine either carries the pending modes out or fails,
\* and the depcache object is not re-read in either case
commit(p) ==
    /\ UNCHANGED <<chvars, dscvars, libvars, CurrentVer, upgradable, mode>>
    /\ lastCall' = [NoCall EXCEPT !.name = "commit", !.pkg = p]
    /\ before' = Snapshot
    /\ pair' = NoPair
    /\ oplog' = <<Plain("Commit")>>
    /\ stderrLines' = 0
    /\ resolveFailed' = FALSE
    /\ raised' \in BOOLEAN

\* what depcache.IsUpgradable answers for the packages
UpgradableAnswers ==
    { [q \in Pkgs |-> FALSE], [q \in Pkgs |-> TRUE], [q \in Pkgs |-> q = "a"] }

InitDepcache ==
    /\ CurrentVer \in [Pkgs -> BOOLEAN]
    /\ upgradable \in UpgradableAnswers
    /\ mode = [q \in Pkgs |-> "keep"]
    /\ oplog = <<>>
    /\ lastCall = NoCall
    /\ before = [mode |-> mode, broken |-> BrokenCount(mode)]
    /\ raised = FALSE
    /\ stderrLines = 0
    /\ resolveFailed = FALSE
    /\ pair = NoPair

NextMark ==
    \/ \E p \in Pkgs : mark_keep(p)
    \/ \E p \in Pkgs, auto_fix \in BOOLEAN, purge \in BOOLEAN : mark_delete(p, auto_fix, purge)
    \/ \E p \in Pkgs, auto_fix \in BOOLEAN, auto_inst \in BOOLEAN, from_user \in BOOLEAN :
          mark_install(p, auto_fix, auto_inst, from_user)
    \/ \E p \in Pkgs : mark_upgrade(p)
    \/ \E p \in Pkgs : commit(p)

(***************************************************************************)
(* Version.description                                                     *)
(***************************************************************************)
NL == "\n"
DescChars == {" ", ".", "a", NL}

StartsWith(s, prefix) ==
    Len(s) >= Len(prefix) /\ SubSeq(s, 1, Len(prefix)) = prefix
EndsWith(s, suffix) ==
    Len(s) >= Len(suffix) /\ SubSeq(s, Len(s) - Len(suffix) + 1, Len(s)) = suffix

RECURSIVE Split(_, _)
\* s.split(c)
Split(s, c) ==
    IF ~Contains(s, c) THEN <<s>>
    ELSE <<SubSeq(s, 1, IndexOf(s, c, 1) - 1)>>
         \o Split(SubSeq(s, IndexOf(s, c, 1) + 1, Len(s)), c)

IsSpace(c) == c \in {" ", NL}
RECURSIVE LStrip(_)
LStrip(s) == IF s # <<>> /\ IsSpace(Head(s)) THEN LStrip(Tail(s)) ELSE s
RECURSIVE RStrip(_)
RStrip(s) ==
    IF s # <<>> /\ IsSpace(s[Len(s)]) THEN RStrip(SubSeq(s, 1, Len(s) - 1)) ELSE s
\* s.strip()
Strip(s) == RStrip(LStrip(s))

\* lines 308-329: the description after one more raw line
AddLine(acc, raw_line) ==
    IF Strip(raw_line) = <<".">>
    THEN IF ~EndsWith(acc, <<NL>>) THEN acc \o <<NL, NL>> ELSE acc
    ELSE IF StartsWith(raw_line, <<" ", " ">>)
    THEN IF ~EndsWith(acc, <<NL>>)
         THEN acc \o <<NL>> \o SubSeq(raw_line, 3, Len(raw_line)) \o <<NL>>
         ELSE acc \o SubSeq(raw_line, 3, Len(raw_line)) \o <<NL>>
    ELSE IF StartsWith(raw_line, <<" ">>)
    THEN IF EndsWith(acc, <<NL>>) \/ acc = <<>>
         THEN acc \o SubSeq(raw_line, 2, Len(raw_line))
         ELSE acc \o raw_line
    ELSE acc \o raw_line

RECURSIVE AddLines(_, _)
\* lines 307-329: the loop over the remaining lines
AddLines(acc, lines) ==
    IF lines = <<>> THEN acc
    ELSE AddLines(AddLine(acc, Head(lines)), Tail(lines))

InvalidUnicodeMsg == <<"Invalid unicode in description">>

\* lines 304-306 without the lines.next() that skips the summary line
descriptionKeepsFirst(d) ==
    IF ~d.utf8 THEN InvalidUnicodeMsg
    ELSE AddLines(<<>>, Split(d.bytes, NL))

\* lines 294-330
description(d) ==
    IF ~d.utf8 THEN InvalidUnicodeMsg
    ELSE AddLines(<<>>, Tail(Split(d.bytes, NL)))

\* 'Short.\n Para one.\n .\n  verbatim line\n More para.', a letter per word
ExampleDescription == <<"a", ".", NL, " ", "a", ".", NL, " ", ".", NL,
                        " ", " ", "a", NL, " ", "a", ".">>

RawDescriptions ==
    [bytes : SeqsUpTo(DescChars, MaxDescLen) \cup {ExampleDescription}, utf8 : {TRUE}]
    \cup [bytes : {<<>>, ExampleDescription}, utf8 : {FALSE}]

\* reading the description property
ReadDescription ==
    /\ UNCHANGED <<chvars, depvars, libvars>>
    /\ dpc = "raw"
    /\ desc' = description(dsc)
    /\ dpc' = "done"
    /\ UNCHANGED <<dsc, redesc>>

\* reading the description property of a version whose long description is
\* the text a former read returned
Reformat ==
    /\ UNCHANGED <<chvars, depvars, libvars>>
    /\ dpc = "done"
    /\ redesc' = description([bytes |-> desc, utf8 |-> TRUE])
    /\ dpc' = "again"
    /\ UNCHANGED <<dsc, desc>>

InitDescription ==
    /\ dsc \in RawDescriptions
    /\ desc = <<>>
    /\ redesc = <<>>
    /\ dpc = "raw"

NextDescription ==
    \/ ReadDescription
    \/ Reformat

(***************************************************************************)
(* Version.__eq__ / __gt__ / __lt__ / __ne__                               *)
(***************************************************************************)
\* the IDs of the version tokens (self._cand.ID) of one package
TokenIDs == {"t1", "t2", "t3"}

\* line 204-206: a Version wraps one token; its version is the token's VerStr
Version(id) == [ID |-> id, version |-> versions[id]]

\* lines 208-209
__eq__(a, b) == a.ID = b.ID
\* lines 211-212
__gt__(a, b) == VersionCompare(a.version, b.version) > 0
\* lines 214-215
__lt__(a, b) == VersionCompare(a.version, b.version) < 0
\* lines 217-218
__ne__(a, b) == ~__eq__(a, b)

\* a caller compares two Version objects of the package in every way
Compare(x, y) ==
    /\ UNCHANGED <<chvars, depvars, dscvars, fetvars, dlvars, versions>>
    /\ compared' = compared \cup
          {[a |-> x, b |-> y,
            lt |-> __lt__(Version(x), Version(y)),
            eq |-> __eq__(Version(x), Version(y)),
            gt |-> __gt__(Version(x), Version(y)),
            ne |-> __ne__(Version(x), Version(y))]}

InitCompare ==
    /\ versions \in [TokenIDs -> VersionStrings]
    /\ compared = {}

NextCompare == \E x \in TokenIDs, y \in TokenIDs : Compare(x, y)

(***************************************************************************)
(* Version.fetch_binary / fetch_source                                     *)
(***************************************************************************)
\* the destdir arguments: the default "" and a directory
DestDirs == {"", "d"}

\* self._records.FileName, and its size and MD5Hash
FileName == [dir |-> "pool", base |-> "p.deb"]
BinarySum == [size |-> 1, md5 |-> "m1"]
\* src.Files: (md5, size, path, type)
SrcFiles == <<[md5 |-> "m1", size |-> 1, path |-> [dir |-> "pool", base |-> "p.dsc"], type |-> "dsc"],
              [md5 |-> "m1", size |-> 1, path |-> [dir |-> "pool", base |-> "p.tar"], type |-> "tar"]>>

\* os.path.basename, os.path.join and os.path.abspath
Basename(path) == path.base
Join(dir, base) == [dir |-> dir, base |-> base]
Abspath(path) == [dir |-> IF path.dir = "" THEN "/cwd" ELSE "/cwd/d", base |-> path.base]

Paths == [dir : DestDirs, base : {"p.deb", "p.dsc", "p.tar"}]
NoFile == [exists |-> FALSE, size |-> 0, md5 |-> ""]
FileContents == {NoFile, [exists |-> TRUE, size |-> 1, md5 |-> "m1"],
                 [exists |-> TRUE, size |-> 2, md5 |-> "m2"]}

\* lines 51-55
_file_is_same(path, size, md5) ==
    files[path].exists /\ files[path].size = size /\ files[path].md5 = md5

\* pkgAcquire::Item status values
ItemStatuses == {"StatDone", "StatError", "StatIdle"}

\* lines 456 and 505: item.Status != item.StatDone
ItemErrored(item) == item.Status = "StatError"
ItemFailed(item) == item.Status # "StatDone"

RECURSIVE FirstFailed(_)
\* lines 455-458 and 504-507: the first item the loop raises for, if any
FirstFailed(items) ==
    IF items = <<>> THEN <<>>
    ELSE IF ItemFailed(Head(items)) THEN <<Head(items)>>
    ELSE FirstFailed(Tail(items))

NoPath == [dir |-> "", base |-> ""]
Returns(path) == [kind |-> "path", path |-> path]
ReturnsNone == [kind |-> "None", path |-> NoPath]
Raises(exc, path) == [kind |-> exc, path |-> path]

\* acq.Run(): every item gets a status, and a done item is on the disk
Fetched(items) ==
    [q \in Paths |->
        IF \E i \in 1..Len(items) : items[i].DestFile = q /\ items[i].Status = "StatDone"
        THEN LET i == CHOOSE k \in 1..Len(items) : items[k].DestFile = q
             IN  [exists |-> TRUE, size |-> items[i].size, md5 |-> items[i].md5]
        ELSE files[q]]

NoFetch == [name |-> "none", destdir |-> "", unpack |-> FALSE]

\* lines 434-459
fetch_binary(destdir) ==
    /\ UNCHANGED <<chvars, depvars, dscvars, cmpvars, dlvars>>
    /\ fcall' = [name |-> "fetch_binary", destdir |-> destdir, unpack |-> FALSE]
    /\ filesBefore' = files
    /\ LET base == Basename(FileName)
           destfile == Join(destdir, base)
       IN  IF _file_is_same(destfile, BinarySum.size, BinarySum.md5)
           THEN /\ fresult' = ReturnsNone
                /\ acqRan' = FALSE
                /\ acqItems' = <<>>
                /\ UNCHANGED files
           ELSE \E st \in ItemStatuses :
                    LET items == <<[DestFile |-> destfile, Status |-> st,
                                    size |-> BinarySum.size, md5 |-> BinarySum.md5]>>
                    IN  /\ acqRan' = TRUE
                        /\ acqItems' = items
                        /\ files' = Fetched(items)
                        /\ fresult' = IF FirstFailed(items) # <<>>
                                      THEN Raises("FetchError", FirstFailed(items)[1].DestFile)
                                      ELSE Returns(Abspath(destfile))

RECURSIVE Requested(_, _)
\* lines 487-501: the files the loop hands to AcquireFile
Requested(srcfiles, destdir) ==
    IF srcfiles = <<>> THEN <<>>
    ELSE LET f == Head(srcfiles)
             base == Basename(f.path)
             destfile == Join(destdir, base)
         IN  (IF _file_is_same(Join("", base), f.size, f.md5)
              THEN <<>>
              ELSE <<[destfile |-> destfile, size |-> f.size, md5 |-> f.md5]>>)
             \o Requested(Tail(srcfiles), destdir)

RECURSIVE DscOf(_, _, _)
\* lines 480 and 490-491: the destfile of the last file of type 'dsc'
DscOf(srcfiles, destdir, found) ==
    IF srcfiles = <<>> THEN found
    ELSE DscOf(Tail(srcfiles), destdir,
               IF Head(srcfiles).type = "dsc"
               THEN Join(destdir, Basename(Head(srcfiles).path)) ELSE found)

\* line 510: src.Package + '-' + apt_pkg.UpstreamVersion(src.Version)
Outdir == "p-1"

\* lines 461-515
fetch_source(destdir, unpack) ==
    /\ UNCHANGED <<chvars, depvars, dscvars, cmpvars, dlvars>>
    /\ fcall' = [name |-> "fetch_source", destdir |-> destdir, unpack |-> unpack]
    /\ filesBefore' = files
    /\ \/ \* lines 481-486: no source record of this version
          /\ fresult' = Raises("ValueError", NoPath)
          /\ acqRan' = FALSE
          /\ acqItems' = <<>>
          /\ UNCHANGED files
       \/ LET requested == Requested(SrcFiles, destdir)
              dscfile == DscOf(SrcFiles, destdir, NoPath)
          IN  \E status \in [1..Len(requested) -> ItemStatuses] :
                LET items == [i \in 1..Len(requested) |->
                                [DestFile |-> requested[i].destfile, Status |-> status[i],
                                 size |-> requested[i].size, md5 |-> requested[i].md5]]
                IN  /\ acqRan' = TRUE
                    /\ acqItems' = items
                    /\ files' = Fetched(items)
                    /\ IF FirstFailed(items) # <<>>
                       THEN fresult' = Raises("FetchError", FirstFailed(items)[1].DestFile)
                       ELSE IF unpack
                       THEN \* line 512: dpkg-source -x dsc outdir
                            \/ /\ files'[dscfile].exists
                               /\ fresult' = Returns(Abspath(Join(destdir, Outdir)))
                            \/ fresult' = Raises("CalledProcessError", dscfile)
                       ELSE fresult' = Returns(Abspath(dscfile))

InitFetch ==
    /\ files \in [Paths -> FileContents]
    /\ filesBefore = files
    /\ fcall = NoFetch
    /\ acqRan = FALSE
    /\ acqItems = <<>>
    /\ fresult = ReturnsNone

NextFetch ==
    \/ \E destdir \in DestDirs : fetch_binary(destdir)
    \/ \E destdir \in DestDirs, unpack \in BOOLEAN : fetch_source(destdir, unpack)

(***************************************************************************)
(* Version.dependencies                                                    *)
(***************************************************************************)
\* the alternatives (dep_or) a group may hold
DepOrX == [TargetPkg |-> "x", CompType |-> ">=", TargetVer |-> "1"]
DepOrY == [TargetPkg |-> "y", CompType |-> "", TargetVer |-> ""]
\* the or-groups (dep_ver_list)
DepVerLists == {<<DepOrX>>, <<DepOrX, DepOrY>>, <<DepOrY, DepOrX>>}
\* the keys DependsList may have
DepKeys == {"PreDepends", "Depends", "Suggests"}
DependsLists ==
    UNION {[S -> SeqsUpTo(DepVerLists, MaxGroups)] : S \in SUBSET DepKeys}

\* line 355, the other way round
DepKindsSwapped == <<"Depends", "PreDepends">>
\* line 355: for t in ["PreDepends", "Depends"]
DepKinds == <<"PreDepends", "Depends">>

\* lines 72-76
BaseDependency(name, rel, ver, pre) ==
    [name |-> name, relation |-> rel, version |-> ver, pre_depend |-> pre]
\* lines 93-94
Dependency(alternatives) == [or_dependencies |-> alternatives]

RECURSIVE BaseDeps(_, _)
\* lines 358-362
BaseDeps(dep_ver_list, t) ==
    IF dep_ver_list = <<>> THEN <<>>
    ELSE <<BaseDependency(Head(dep_ver_list).TargetPkg, Head(dep_ver_list).CompType,
                          Head(dep_ver_list).TargetVer, t = "PreDepends")>>
         \o BaseDeps(Tail(dep_ver_list), t)

RECURSIVE GroupsOf(_, _)
\* lines 357-363
GroupsOf(lists, t) ==
    IF lists = <<>> THEN <<>>
    ELSE <<Dependency(BaseDeps(Head(lists), t))>> \o GroupsOf(Tail(lists), t)

\* lines 356-365: a kind the version lacks raises KeyError, which is passed
KindGroups(depends, t) ==
    IF t \in DOMAIN depends THEN GroupsOf(depends[t], t) ELSE <<>>

RECURSIVE DependsOver(_, _)
\* lines 355-365
DependsOver(depends, kinds) ==
    IF kinds = <<>> THEN <<>>
    ELSE KindGroups(depends, Head(kinds)) \o DependsOver(depends, Tail(kinds))

\* lines 350-366
dependencies(depends) == DependsOver(depends, DepKinds)

\* reading the dependencies property
ReadDependencies ==
    /\ UNCHANGED <<chvars, depvars, dscvars, cmpvars, fetvars>>
    /\ dlpc = "unread"
    /\ depends_list' = dependencies(DependsList)
    /\ dlpc' = "read"
    /\ UNCHANGED DependsList

InitDependencies ==
    /\ DependsList \in DependsLists
    /\ depends_list = <<>>
    /\ dlpc = "unread"

NextDependencies == ReadDependencies

(***************************************************************************)
(* Specifications                                                          *)
(***************************************************************************)
IdleCompare ==
    /\ versions = [t \in TokenIDs |-> <<"1">>]
    /\ InitCompare

IdleFetch ==
    /\ files = [q \in Paths |-> NoFile]
    /\ InitFetch

IdleDependencies ==
    /\ DependsList = <<>>
    /\ InitDependencies

IdleLib == IdleCompare /\ IdleFetch /\ IdleDependencies

IdleDepcache ==
    /\ CurrentVer = [q \in Pkgs |-> FALSE]
    /\ upgradable = [q \in Pkgs |-> FALSE]
    /\ InitDepcache

IdleDescription ==
    /\ dsc = [bytes |-> <<>>, utf8 |-> TRUE]
    /\ InitDescription

IdleChangelog ==
    /\ defaulttimeout = 30
    /\ installedVer = NoVersion
    /\ candidate = NoCandidate
    /\ InitChangelog

InitCh == IdleDepcache /\ IdleDescription /\ IdleLib /\ InitChangelog

SpecChangelog == InitCh /\ [][NextChangelog]_vars

InitMk == IdleChangelog /\ IdleDescription /\ IdleLib /\ InitDepcache

SpecMark == InitMk /\ [][NextMark]_vars

InitDsc == IdleChangelog /\ IdleDepcache /\ IdleLib /\ InitDescription

SpecDescription == InitDsc /\ [][NextDescription]_vars

InitCmp ==
    IdleChangelog /\ IdleDepcache /\ IdleDescription /\ IdleFetch
    /\ IdleDependencies /\ InitCompare

SpecCompare == InitCmp /\ [][NextCompare]_vars

InitFet ==
    IdleChangelog /\ IdleDepcache /\ IdleDescription /\ IdleCompare
    /\ IdleDependencies /\ InitFetch

SpecFetch == InitFet /\ [][NextFetch]_vars

InitDl ==
    IdleChangelog /\ IdleDepcache /\ IdleDescription /\ IdleCompare /\ IdleFetch
    /\ InitDependencies

SpecDependencies == InitDl /\ [][NextDependencies]_vars

(***************************************************************************)
(* Properties of Package.get_changelog                                     *)
(***************************************************************************)

\* C1: whatever way a get_changelog call exits, the process-global default
\* socket timeout after the call equals its value immediately before it.
C1_TimeoutRestored ==
    pc \in {"returned", "idle"} => defaulttimeout = callerTimeout

\* a call left by an exception raised while the connection was being read
C1_Witness ==
    /\ pc = "returned"
    /\ exitKind = "raised"
    /\ urlopens = 1
    /\ lastExc = "UnicodeDecodeError"
    /\ defaulttimeout # ChangelogTimeout

\* C2: once a call has completed a fetch, no later call on the handle enters
\* the fetch path again: each returns the text of that first fetch from the
\* cache and opens no connection, whatever its uri and cancel_lock.
C2_CachedAfterFetch ==
    fetchedOnce =>
        /\ pc \in {"idle", "returned"}
        /\ fetched # Empty
        /\ _changelog = fetched
        /\ pc = "returned" =>
              /\ result = fetched
              /\ exitKind \in {"ok", "cached"}
              /\ exitKind = "cached" => urlopens = 0

\* a later call, with a uri and a set cancellation flag, served from the cache
C2_Witness ==
    /\ fetchedOnce
    /\ pc = "returned"
    /\ exitKind = "cached"
    /\ uriArg = "custom"
    /\ lockArg /\ cancelSet
    /\ result = fetched

\* C3: a call that finds the cancellation flag set at either check point
\* returns "", drops the lines accumulated so far and leaves the cache empty;
\* the call that follows a cancelled one, when it does not find the flag set
\* before opening, opens a connection.
C3_CancelNotMemoized ==
    /\ (pc = "returned" /\ exitKind \in {"cancel1", "cancel2"})
          => (result = Empty /\ _changelog = Empty)
    /\ (pc = "returned" /\ prevExit = "cancel" /\ exitKind # "cancel1"
          /\ UriTemplate(uriArg, candidate) # "")
          => urlopens = 1

\* a call that follows a cancelled call, has fetched afresh, and is itself
\* cancelled in the loop with a line already accumulated
C3_Witness ==
    /\ pc = "returned"
    /\ prevExit = "cancel"
    /\ exitKind = "cancel2"
    /\ Len(changelog) > 0
    /\ urlopens = 1

\* the epoch of a version string removed: what follows its first colon
EpochRemoved(v) ==
    IF \E i \in 1..Len(v) : v[i] = ":"
    THEN LET i == CHOOSE k \in 1..Len(v) :
                      v[k] = ":" /\ \A j \in 1..(k - 1) : v[j] # ":"
         IN  [j \in 1..(Len(v) - i) |-> v[i + j]]
    ELSE v

\* header lines of the source package with a version <= the installed one
StopHeaders(s, inst) ==
    {i \in 1..Len(s) :
        /\ s[i].kind = "hdr"
        /\ s[i].pkg = "src"
        /\ VersionCompare(EpochRemoved(s[i].ver), EpochRemoved(inst)) <= 0}

\* the lines of s that precede its first such header (all, when it has none)
LinesBeforeStop(s, inst) ==
    IF StopHeaders(s, inst) = {} THEN s
    ELSE LET first == CHOOSE i \in StopHeaders(s, inst) :
                          \A j \in StopHeaders(s, inst) : i <= j
         IN  SubSeq(s, 1, first - 1)

\* C4 as stated: with an installed version, a completed fetch returns exactly
\* the stream lines that precede the first header whose version is <= the
\* installed one, epochs removed.
C4_ReturnsLinesBeforeStop ==
    (pc = "returned" /\ exitKind = "ok" /\ installedVer # NoVersion)
        => result = LinesBeforeStop(stream, installedVer)

\* C4 amended: the same when at least one line precedes that header; when
\* none does, the "not available" placeholder is returned instead.
C4_LinesBeforeStopOrPlaceholder ==
    (pc = "returned" /\ exitKind = "ok" /\ installedVer # NoVersion)
        => result = IF LinesBeforeStop(stream, installedVer) = <<>>
                    THEN NotAvailableMsg
                    ELSE LinesBeforeStop(stream, installedVer)

\* installed 1; a newer entry is kept and the read stops at entry 2:1
C4_Witness ==
    /\ pc = "returned"
    /\ exitKind = "ok"
    /\ installedVer = <<"1">>
    /\ stream = <<HdrLine("src", <<"2">>), HdrLine("src", <<"2", ":", "1">>)>>
    /\ result = <<HdrLine("src", <<"2">>)>>

\* C5: a resource-not-found error, a connectivity failure and an
\* unrecognized origin without a caller-supplied uri each end the call
\* without an exception, with the fixed message of that kind.
C5_FailuresYieldPlaceholders ==
    pc = "returned" =>
        /\ lastExc = "HTTPError" =>
              (exitKind # "raised" /\ result = NotYetAvailableMsg(src_ver))
        /\ lastExc \in {"URLError", "IOError", "BadStatusLine"} =>
              (exitKind # "raised" /\ result = FailedDownloadMsg)
        /\ (_changelog = Empty /\ uriArg = "None" /\ candidate.origin = "Other") =>
              (exitKind = "noorigin" /\ result = NotAvailableMsg /\ urlopens = 0)

\* the server answers with an HTTP error
C5_Witness ==
    /\ pc = "returned"
    /\ lastExc = "HTTPError"
    /\ exitKind = "http"
    /\ urlopens = 1

\* C16: once the cancellation flag is set while a call that was given the
\* flag is in its read loop, the call reads at most one more line before it
\* returns.
C16_OneReadAfterCancel ==
    readsAfterSet <= 1

\* the flag was set after the check at line 936 and before the read; the
\* line was read and kept, and the next check ended the call
C16_Witness ==
    /\ pc = "returned"
    /\ exitKind = "cancel2"
    /\ readsAfterSet = 1
    /\ pos = 1
    /\ Len(changelog) = 1

\* C19: the source version put into the uri is the resolved source version
\* less its epoch, that is less everything up to and including its first
\* colon, and otherwise unchanged.
C19_OnlyEpochRemoved ==
    pc \in {"check1", "urlopen", "check2", "readline"}
        => src_ver = EpochRemoved(SourceVersion(candidate))

\* C20: a call that ends with the HTTP-error or the I/O-error message
\* leaves the cache empty, and the call that follows it is not served from
\* the cache: unless it is cancelled before opening or has no uri, it opens
\* a connection.
C20_ErrorNotCached ==
    /\ (pc = "returned" /\ exitKind \in {"http", "io"}) => _changelog = Empty
    /\ (pc = "returned" /\ prevExit = "neterr") =>
          /\ exitKind # "cached"
          /\ exitKind \notin {"cancel1", "noorigin"} => urlopens = 1

\* the call after a failed one fetches, and returns the lines it read
C20_Witness ==
    /\ pc = "returned"
    /\ prevExit = "neterr"
    /\ exitKind = "ok"
    /\ urlopens = 1
    /\ Len(stream) > 0
    /\ result = stream

\* the connection delivered nothing to keep: no line at all, or a first
\* line that is already a header of a version <= the installed one
NothingToKeep ==
    \/ stream = <<>>
    \/ installedVer # NoVersion /\ 1 \in StopHeaders(stream, installedVer)

\* C21: a fetch that completes without error and keeps no line returns the
\* "not available" placeholder and stores it in the cache; from then on the
\* cache holds the placeholder and every later call returns it without
\* opening a connection.
C21_PlaceholderCached ==
    /\ (pc = "returned" /\ exitKind = "ok" /\ NothingToKeep) =>
          /\ changelog = <<>>
          /\ result = NotAvailableMsg
          /\ _changelog = NotAvailableMsg
    /\ (fetchedOnce /\ fetched = NotAvailableMsg) =>
          /\ _changelog = NotAvailableMsg
          /\ pc \in {"idle", "returned"}
          /\ pc = "returned" =>
                /\ result = NotAvailableMsg
                /\ exitKind \in {"ok", "cached"}
                /\ exitKind = "cached" => urlopens = 0

\* a later call, given a uri of its own, is handed the cached placeholder
C21_Witness ==
    /\ fetchedOnce
    /\ fetched = NotAvailableMsg
    /\ pc = "returned"
    /\ exitKind = "cached"
    /\ uriArg = "custom"
    /\ urlopens = 0
    /\ result = NotAvailableMsg

(***************************************************************************)
(* Properties of the mark_* / commit protocol                              *)
(***************************************************************************)
Count(ops, name) == Cardinality({i \in 1..Len(ops) : ops[i].name = name})
IndexOfOp(ops, name) == CHOOSE i \in 1..Len(ops) : ops[i].name = name

\* exactly one "pre" and one "post", and every operation whose name is not
\* in `outside` lies between them
Bracketed(ops, outside) ==
    /\ Count(ops, "pre") = 1
    /\ Count(ops, "post") = 1
    /\ \A i \in 1..Len(ops) :
          ops[i].name \notin ({"pre", "post"} \cup outside) =>
              (IndexOfOp(ops, "pre") < i /\ i < IndexOfOp(ops, "post"))

Unnotified(ops) == Count(ops, "pre") = 0 /\ Count(ops, "post") = 0

\* the package of the last call is upgradable: installed, and reported so
LastPkgUpgradable == CurrentVer[lastCall.pkg] /\ upgradable[lastCall.pkg]

C8_UpgradeOnlyWhenUpgradable ==
    lastCall.name = "mark_upgrade" =>
        LET p == lastCall.pkg
            m1 == MarkInstall(before.mode, p, TRUE)
            fix == BrokenCount(m1) > 0
        IN  IF LastPkgUpgradable
            THEN /\ oplog = <<OnPkg("IsUpgradable", p), Plain("pre"),
                              Op("MarkInstall", p, TRUE, TRUE), Plain("BrokenCount")>>
                            \o (IF fix THEN <<OnPkg("Clear", p), OnPkg("Protect", p),
                                              Op("Resolve", "", TRUE, FALSE)>>
                                       ELSE <<>>)
                            \o <<Plain("post")>>
                 /\ ~fix => mode = m1
                 /\ mode[p] = m1[p]
                 /\ stderrLines = 0
                 /\ ~raised
            ELSE /\ mode = before.mode
                 /\ Names(oplog) \subseteq {"IsUpgradable"}
                 /\ stderrLines = 1
                 /\ ~raised

\* mark_upgrade on a package that is not installed although the depcache
\* reports it upgradable, with other changes pending
C8_Witness ==
    /\ lastCall.name = "mark_upgrade"
    /\ ~CurrentVer[lastCall.pkg]
    /\ upgradable[lastCall.pkg]
    /\ stderrLines = 1
    /\ \E q \in Pkgs : mode[q] # "keep"

\* C9 as stated: for a package nothing depends on, mark_delete followed
\* immediately by mark_keep leaves the broken-count as it was before.
C9_DeleteKeepRestoresBroken ==
    pair.valid => BrokenCount(mode) = pair.broken

\* C9 amended: so it does when the package had no pending change before the
\* two calls and mark_delete did not run the resolver.
C9_DeleteKeepRestoresWhenUntouched ==
    (pair.valid /\ pair.wasKeep /\ ~pair.fixRan) => BrokenCount(mode) = pair.broken

\* the pair on an installed package, with a broken package present before it
C9_Witness ==
    /\ pair.valid
    /\ pair.wasKeep
    /\ ~pair.fixRan
    /\ CurrentVer[lastCall.pkg]
    /\ pair.broken > 0
    /\ BrokenCount(mode) = pair.broken

\* the operations of a log that are issued to the problem resolver
IsResolverOp(o) == o.name \in {"Clear", "Protect", "Remove", "InstallProtect", "Resolve"}
ResolverOps(ops) == SelectSeq(ops, IsResolverOp)

\* C17: mark_delete issues resolver operations only when auto_fix is set and
\* the broken-count after its MarkDelete request is above zero; it then
\* issues clear, protect and remove on this package, install-protect and
\* resolve, in this order and after the request; otherwise it issues none.
C17_DeleteResolverSequence ==
    lastCall.name = "mark_delete" =>
        LET p == lastCall.pkg
            brokenAfter == BrokenCount([before.mode EXCEPT
                               ![p] = IF CurrentVer[p] THEN "delete" ELSE "keep"])
        IN  /\ oplog[2] = Op("MarkDelete", p, lastCall.purge, FALSE)
            /\ Count(oplog, "MarkDelete") = 1
            /\ ResolverOps(oplog) =
                  IF lastCall.auto_fix /\ brokenAfter > 0
                  THEN <<Op("Clear", p, FALSE, FALSE), Op("Protect", p, FALSE, FALSE),
                         Op("Remove", p, FALSE, FALSE),
                         Op("InstallProtect", "", FALSE, FALSE),
                         Op("Resolve", "", FALSE, FALSE)>>
                  ELSE <<>>
            /\ \A i \in 1..Len(oplog) : IsResolverOp(oplog[i]) => i > 2

\* deleting "a" while "b", which depends on it, is installed
C17_Witness ==
    /\ lastCall.name = "mark_delete"
    /\ lastCall.pkg = "a"
    /\ lastCall.auto_fix
    /\ CurrentVer["a"] /\ CurrentVer["b"]
    /\ Len(ResolverOps(oplog)) = 5
    /\ mode["a"] = "delete"

\* C18: mark_install hands auto_inst and from_user on to the install request
\* as given, and issues resolver operations only when auto_fix is set and
\* the broken-count after the request is above zero: clear and protect on
\* this package, then one resolve that may leave packages broken.
C18_InstallArgsAndResolver ==
    lastCall.name = "mark_install" =>
        LET p == lastCall.pkg
            brokenAfter == BrokenCount(MarkInstall(before.mode, p, lastCall.auto_inst))
        IN  /\ oplog[2] = Op("MarkInstall", p, lastCall.auto_inst, lastCall.from_user)
            /\ Count(oplog, "MarkInstall") = 1
            /\ ResolverOps(oplog) =
                  IF lastCall.auto_fix /\ brokenAfter > 0
                  THEN <<Op("Clear", p, FALSE, FALSE), Op("Protect", p, FALSE, FALSE),
                         Op("Resolve", "", TRUE, FALSE)>>
                  ELSE <<>>
            /\ \A i \in 1..Len(oplog) : IsResolverOp(oplog[i]) => i > 2

\* installing "b" without its dependency "a", not on the user's behalf
C18_Witness ==
    /\ lastCall.name = "mark_install"
    /\ lastCall.pkg = "b"
    /\ lastCall.auto_fix
    /\ ~lastCall.auto_inst
    /\ ~lastCall.from_user
    /\ oplog[2] = Op("MarkInstall", "b", FALSE, FALSE)
    /\ Len(ResolverOps(oplog)) = 3

(***************************************************************************)
(* Properties of Version.description                                       *)
(***************************************************************************)

\* the three line rules, read off the text of the rules:
\* a period line ends the paragraph and leaves one blank line behind it
AfterSeparator(out) ==
    IF out = <<>> THEN <<NL, NL>>
    ELSE IF EndsWith(out, <<NL, NL>>) THEN out
    ELSE IF EndsWith(out, <<NL>>) THEN out \o <<NL>>
    ELSE out \o <<NL, NL>>
\* a verbatim line stands on a line of its own, less its first two spaces
AfterVerbatim(out, l) ==
    (IF EndsWith(out, <<NL>>) THEN out ELSE out \o <<NL>>)
    \o [i \in 1..(Len(l) - 2) |-> l[i + 2]] \o <<NL>>
\* a continuation line loses its space only where a paragraph starts
AfterContinuation(out, l) ==
    IF out = <<>> \/ EndsWith(out, <<NL>>)
    THEN out \o [i \in 1..(Len(l) - 1) |-> l[i + 1]]
    ELSE out \o l

IsPeriodLine(l) == Strip(l) = <<".">>
LeadingSpaces(l) ==
    IF \A i \in 1..Len(l) : l[i] = " " THEN Len(l)
    ELSE (CHOOSE i \in 1..Len(l) : l[i] # " " /\ \A j \in 1..(i - 1) : l[j] = " ") - 1

RECURSIVE ByRules(_, _)
ByRules(out, lines) ==
    IF lines = <<>> THEN out
    ELSE LET l == Head(lines)
             next == IF IsPeriodLine(l) THEN AfterSeparator(out)
                     ELSE IF LeadingSpaces(l) >= 2 THEN AfterVerbatim(out, l)
                     ELSE IF LeadingSpaces(l) = 1 THEN AfterContinuation(out, l)
                     ELSE out \o l
         IN  ByRules(next, Tail(lines))

\* C10: for every raw long description, the formatted description is the
\* text obtained by dropping the first line and applying the three line
\* rules to the remaining lines in order (a period line gives a blank
\* paragraph separator, a line with two or more leading spaces is verbatim
\* on its own line, a line with one leading space continues the paragraph).
C10_DescriptionFollowsRules ==
    (dpc = "done" /\ dsc.utf8) => desc = ByRules(<<>>, Tail(Split(dsc.bytes, NL)))

\* a text less its first line: what follows its first line break
FirstLineRemoved(t) ==
    IF \E i \in 1..Len(t) : t[i] = NL
    THEN LET i == CHOOSE k \in 1..Len(t) :
                      t[k] = NL /\ \A j \in 1..(k - 1) : t[j] # NL
         IN  [j \in 1..(Len(t) - i) |-> t[i + j]]
    ELSE <<>>

HasLineBreak(t) == \E i \in 1..Len(t) : t[i] = NL

\* C11 as stated: formatting a text that description returned, taken as a
\* raw long description, gives that text less its first line.
C11_ReformatDropsFirstLineOnly ==
    dpc = "again" => redesc = FirstLineRemoved(desc)

\* C11 amended: it gives that text less its first line exactly when the text
\* has no line break (both are then empty); when the text has a line break
\* the result is strictly shorter than the text less its first line.
C11_ReformatShortens ==
    dpc = "again" =>
        /\ ~HasLineBreak(desc) => (redesc = <<>> /\ FirstLineRemoved(desc) = <<>>)
        /\ HasLineBreak(desc) => Len(redesc) < Len(FirstLineRemoved(desc))

\* the example description formatted twice: "a.\n\na\na." becomes "aa."
C11_Witness ==
    /\ dpc = "again"
    /\ dsc.bytes = ExampleDescription
    /\ dsc.utf8
    /\ desc = <<"a", ".", NL, NL, "a", NL, "a", ".">>
    /\ redesc = <<"a", "a", ".">>

(***************************************************************************)
(* Properties of the Version comparisons                                   *)
(***************************************************************************)

\* exactly one of three answers is TRUE
ExactlyOne(x, y, z) == (x /\ ~y /\ ~z) \/ (~x /\ y /\ ~z) \/ (~x /\ ~y /\ z)

\* C12: for every two Version objects a, b of one package exactly one of
\* a < b, a == b, a > b holds, and < is transitive over the comparisons made.
C12_TotalOrder ==
    /\ \A c \in compared : ExactlyOne(c.lt, c.eq, c.gt)
    /\ \A c \in compared, d \in compared, e \in compared :
          (c.b = d.a /\ e.a = c.a /\ e.b = d.b /\ c.lt /\ d.lt) => e.lt

(***************************************************************************)
(* Properties of Version.fetch_binary / fetch_source                       *)
(***************************************************************************)

\* the base names of the files the last fetch call is about
BasesOfCall ==
    IF fcall.name = "fetch_binary" THEN {FileName.base}
    ELSE {SrcFiles[i].path.base : i \in 1..Len(SrcFiles)}

\* the destination file of base name b was there, with the expected size
\* and checksum, when the last fetch call began
WasThere(b) ==
    LET f == filesBefore[[dir |-> fcall.destdir, base |-> b]]
    IN  f.exists /\ f.size = 1 /\ f.md5 = "m1"

DownloadAsked(b) ==
    \E i \in 1..Len(acqItems) : acqItems[i].DestFile = [dir |-> fcall.destdir, base |-> b]

\* C13: when the destination file (destdir joined with the base name) is
\* already there with the expected size and checksum, fetch_binary and
\* fetch_source ask for no download of it, and fetch_binary returns its path.
C13_ExistingFileShortCircuits ==
    (fcall.name \in {"fetch_binary", "fetch_source"} /\ fresult.kind # "ValueError") =>
        \A b \in BasesOfCall :
            WasThere(b) =>
                /\ ~DownloadAsked(b)
                /\ fcall.name = "fetch_binary" =>
                      fresult = [kind |-> "path",
                                 path |-> [dir |-> IF fcall.destdir = "" THEN "/cwd" ELSE "/cwd/d",
                                           base |-> b]]

\* C14: fetch_binary and fetch_source raise FetchError exactly when the
\* acquisition ran and left an item with a status other than done, and
\* return a path only when every item is done.
C14_FetchErrorIffItemNotDone ==
    fcall.name \in {"fetch_binary", "fetch_source"} =>
        /\ fresult.kind = "FetchError"
              <=> (acqRan /\ \E i \in 1..Len(acqItems) : acqItems[i].Status # "StatDone")
        /\ fresult.kind = "path"
              => (\A i \in 1..Len(acqItems) : acqItems[i].Status = "StatDone")

\* fetch_source asked for two files; the first arrived, the second was left
\* idle, and FetchError names the second
C14_Witness ==
    /\ fcall.name = "fetch_source"
    /\ Len(acqItems) = 2
    /\ acqItems[1].Status = "StatDone"
    /\ acqItems[2].Status = "StatIdle"
    /\ fresult.kind = "FetchError"
    /\ fresult.path = acqItems[2].DestFile

(***************************************************************************)
(* Properties of Version.dependencies                                      *)
(***************************************************************************)

\* the or-groups the version has of one kind, none when it lacks the kind
ClausesOf(kind) ==
    IF kind \in DOMAIN DependsList THEN DependsList[kind] ELSE <<>>

\* group g holds the alternatives of clause c, in order, flagged with pre
SameGroup(g, c, pre) ==
    /\ Len(g.or_dependencies) = Len(c)
    /\ \A j \in 1..Len(c) :
          g.or_dependencies[j] =
              [name |-> c[j].TargetPkg, relation |-> c[j].CompType,
               version |-> c[j].TargetVer, pre_depend |-> pre]

\* C15: the returned list is the groups of the PreDepends clauses, in their
\* order and flagged pre_depend, followed by the groups of the Depends
\* clauses, in their order and not flagged; alternatives keep their order,
\* and a kind the version lacks gives no group.
C15_PreDependsBeforeDepends ==
    dlpc = "read" =>
        LET pre == ClausesOf("PreDepends")
            dep == ClausesOf("Depends")
        IN  /\ Len(depends_list) = Len(pre) + Len(dep)
            /\ \A i \in 1..Len(pre) : SameGroup(depends_list[i], pre[i], TRUE)
            /\ \A i \in 1..Len(dep) :
                  SameGroup(depends_list[Len(pre) + i], dep[i], FALSE)

\* a version with one PreDepends clause, two Depends clauses and a Suggests
C15_Witness ==
    /\ dlpc = "read"
    /\ DOMAIN DependsList = DepKeys
    /\ Len(DependsList["PreDepends"]) = 1
    /\ Len(DependsList["Depends"]) = 2
    /\ Len(DependsList["Suggests"]) = 1
    /\ Len(depends_list) = 3
    /\ depends_list[1].or_dependencies[1].pre_depend
    /\ ~depends_list[2].or_dependencies[1].pre_depend
    /\ Len(depends_list[3].or_dependencies) = 2

====
